---- MODULE Spec2Model ----
(***************************************************************************)
(* Model of the AWS cloud-provider manager of capten-autoscaler:           *)
(*   pkg/cloudprovider/aws/manager.go                                      *)
(*     AwsManager        refresh gating, size change, instance deletion    *)
(*     awsCloudProvider  Refresh                                           *)
(*     AwsNodeGroup      TargetSize, IncreaseSize, DecreaseTargetSize,     *)
(*                       Belongs, DeleteNodes                              *)
(* The asgCache type the manager delegates to is not part of the sources;  *)
(* its operations (regenerate, SetAsgSize, DeleteInstances, lookups) are   *)
(* modelled from the design document and are marked as such.               *)
(*                                                                         *)
(* Time is an integer number of ticks; one minute is TicksPerMinute ticks. *)
(* A call is instantaneous at this resolution: the readings of time.Now()  *)
(* inside one call give the same tick.                                     *)
(***************************************************************************)
EXTENDS Integers, Sequences, FiniteSets, TLC

----------------------------------------------------------------------------
(* Bounds of the model *)

TicksPerMinute == 2
MaxTime == 3
MaxCap == 2

(* Program constant: refreshInterval = 1 * time.Minute *)
refreshInterval == 1 * TicksPerMinute

----------------------------------------------------------------------------
(* The remote world as the listing call reports it *)

Groups == {"g1", "g2"}
Instances == {"i1", "i2", "i3"}

\* the scaling group an instance is a member of on the remote side
Home(i) == IF i = "i3" THEN "g2" ELSE "g1"

\* configured bounds of the remote groups
MinOf(g) == IF g = "g1" THEN 1 ELSE 0
MaxOf(g) == IF g = "g1" THEN MaxCap ELSE MaxCap - 1

\* the describe call is paginated: one group on each page
NumPages == Cardinality(Groups)
PageOf(g) == IF g = "g1" THEN 1 ELSE 2

\* one answer of the remote listing: the groups that pass discovery with
\* their desired capacity, and the instances of these groups that are alive
Listings ==
  UNION { { [desired |-> d, alive |-> al] :
              d \in [gs -> 0..MaxCap],
              al \in SUBSET {i \in Instances : Home(i) \in gs} } :
          gs \in SUBSET Groups }

NoListing == [desired |-> [g \in {} |-> 0], alive |-> {}]

VARIABLES
  now,              \* time.Now()
  lastRefresh,      \* AwsManager.lastRefresh
  asgs,             \* asgCache: group mapping  AwsRef -> asg
  instanceToAsg,    \* asgCache: instance -> group index
  refreshScheduled, \* a successful DeleteInstances since the last Refresh call
  regenAt,          \* time of the last successful regeneration; -1 once a
                    \* successful DeleteInstances has followed it
  last,             \* outcome of the last call
  text,             \* the string handed to a parser
  parsed,           \* what the parser returned for it
  mutex,            \* asgCache: who holds the lock of the cache
  pc,               \* where each thread is in its access to the cache
  built,            \* the snapshot a regeneration has built aside
  seen,             \* what the reader has read so far
  committed,        \* the snapshot the last finished write left
  offered           \* the snapshots committed while the reader has been reading

parserVars == <<text, parsed>>

threadVars == <<mutex, pc, built, seen, committed, offered>>

vars ==
  <<now, lastRefresh, asgs, instanceToAsg, refreshScheduled, regenAt, last,
    text, parsed, mutex, pc, built, seen, committed, offered>>

----------------------------------------------------------------------------
(* asgCache, modelled from the design document (sections 3, 4.2, 4.4) *)

\* groups reported on the pages 1..p of the listing
ListedUpTo(l, p) == {g \in DOMAIN l.desired : PageOf(g) <= p}

\* the group mapping built from the listed groups gs
BuildAsgs(l, gs) ==
  [g \in gs |-> [minSize |-> MinOf(g), maxSize |-> MaxOf(g),
                 curSize |-> l.desired[g]]]

\* the instance -> group index built for the listed groups gs
BuildIndex(l, gs) == [i \in {j \in l.alive : Home(j) \in gs} |-> Home(i)]

\* regenerate() that overwrites the cache with the pages read before the failure
regenerate_partial(a, ix, l, failPage) ==
  IF failPage \in 1..NumPages
  THEN [asgs |-> BuildAsgs(l, ListedUpTo(l, failPage - 1)),
        index |-> BuildIndex(l, ListedUpTo(l, failPage - 1)), err |-> TRUE]
  ELSE [asgs |-> BuildAsgs(l, ListedUpTo(l, NumPages)),
        index |-> BuildIndex(l, ListedUpTo(l, NumPages)), err |-> FALSE]

\* regenerate() that adds the new index entries to the old ones and drops none
regenerate_staleIndex(a, ix, l, failPage) ==
  IF failPage \in 1..NumPages
  THEN [asgs |-> a, index |-> ix, err |-> TRUE]
  ELSE LET new == BuildIndex(l, ListedUpTo(l, NumPages)) IN
       [asgs |-> BuildAsgs(l, ListedUpTo(l, NumPages)),
        index |-> [i \in DOMAIN ix \cup DOMAIN new |->
                     IF i \in DOMAIN new THEN new[i] ELSE ix[i]],
        err |-> FALSE]

\* asgCache.regenerate(): list every page, build the new mapping and index
\* aside, swap them in at the end; a failing page aborts and keeps the cache.
\* failPage = 0: no page fails.
regenerate(a, ix, l, failPage) ==
  IF failPage \in 1..NumPages
  THEN [asgs |-> a, index |-> ix, err |-> TRUE]
  ELSE [asgs |-> BuildAsgs(l, ListedUpTo(l, NumPages)),
        index |-> BuildIndex(l, ListedUpTo(l, NumPages)), err |-> FALSE]

\* asgCache.InstancesByAsg(ref)
InstancesByAsg(ix, g) == {i \in DOMAIN ix : ix[i] = g}

\* asgCache.FindForInstance(instance); "none" stands for nil
FindForInstance(ix, i) == IF i \in DOMAIN ix THEN ix[i] ELSE "none"

\* asgCache.SetAsgSize without the validation of the new size
asgCacheSetAsgSize_noValidation(a, g, size, remoteErr) ==
  IF remoteErr
  THEN [asgs |-> a, ok |-> FALSE, setSize |-> 1, remoteErr |-> TRUE]
  ELSE [asgs |-> [a EXCEPT ![g].curSize = size],
        ok |-> TRUE, setSize |-> 1, remoteErr |-> FALSE]

\* asgCache.SetAsgSize(asg, size): validate minSize <= size <= maxSize, issue
\* the remote set-desired-size call, on success update curSize in place
asgCacheSetAsgSize(a, g, size, remoteErr) ==
  IF size < a[g].minSize \/ size > a[g].maxSize
  THEN [asgs |-> a, ok |-> FALSE, setSize |-> 0, remoteErr |-> FALSE]
  ELSE IF remoteErr
  THEN [asgs |-> a, ok |-> FALSE, setSize |-> 1, remoteErr |-> TRUE]
  ELSE [asgs |-> [a EXCEPT ![g].curSize = size],
        ok |-> TRUE, setSize |-> 1, remoteErr |-> FALSE]

\* every ref of the batch resolves through the index, all to the same group
SameAsg(ix, batch) ==
  /\ \A i \in batch : i \in DOMAIN ix
  /\ \A i, j \in batch : ix[i] = ix[j]

\* asgCache.DeleteInstances(instances): reject a batch that does not resolve to
\* one group, else issue one terminate call per instance; the failAt-th call
\* fails (failAt = 0: none fails).  The batch is the set of
\* the refs passed: the outcome does not depend on their order.
asgCacheDeleteInstances(ix, batch, failAt) ==
  IF ~SameAsg(ix, batch)
  THEN [ok |-> FALSE, terminate |-> 0, remoteErr |-> FALSE]
  ELSE IF failAt \in 1..Cardinality(batch)
  THEN [ok |-> FALSE, terminate |-> failAt, remoteErr |-> TRUE]
  ELSE [ok |-> TRUE, terminate |-> Cardinality(batch), remoteErr |-> FALSE]

----------------------------------------------------------------------------
(* Outcome of one call on the manager or on a node group *)

Out(a, ix, lr, ok, regen, setSize, terminate, remoteErr) ==
  [asgs |-> a, index |-> ix, lastRefresh |-> lr, ok |-> ok, regen |-> regen,
   setSize |-> setSize, terminate |-> terminate, remoteErr |-> remoteErr]

\* an early return with an error: nothing called, nothing changed
Rejected(a, ix, lr) == Out(a, ix, lr, FALSE, 0, 0, 0, FALSE)

----------------------------------------------------------------------------
(* AwsManager *)

\* forceRefresh() that advances the clock whether or not regenerate() failed
forceRefresh_clockAlways(a, ix, lr, l, failPage, tEnd) ==
  LET r == regenerate(a, ix, l, failPage) IN
  Out(r.asgs, r.index, tEnd, ~r.err, 1, 0, 0, r.err)

\* forceRefresh() that logs the error of regenerate() and returns nil
forceRefresh_swallow(a, ix, lr, l, failPage, tEnd) ==
  LET r == regenerate(a, ix, l, failPage) IN
  IF r.err
  THEN Out(r.asgs, r.index, lr, TRUE, 1, 0, 0, TRUE)
  ELSE Out(r.asgs, r.index, tEnd, TRUE, 1, 0, 0, FALSE)

\* AwsManager.forceRefresh(): regenerate the cache; return its error, or set
\* lastRefresh to time.Now() (tEnd, the reading after regenerate returned)
forceRefresh(a, ix, lr, l, failPage, tEnd) ==
  LET r == regenerate(a, ix, l, failPage) IN
  IF r.err
  THEN Out(r.asgs, r.index, lr, FALSE, 1, 0, 0, TRUE)
  ELSE Out(r.asgs, r.index, tEnd, TRUE, 1, 0, 0, FALSE)

\* the interval gate with the boundary instant counted as not yet due
RefreshNotDue_inclusive(lr, t) == lr + refreshInterval >= t

\* the interval gate that opens one tick before the interval is over
RefreshNotDue_early(lr, t) == lr + refreshInterval > t + 1

\* m.lastRefresh.Add(refreshInterval).After(time.Now())
RefreshNotDue(lr, t) == lr + refreshInterval > t

\* AwsManager.Refresh() called at time t
Refresh(a, ix, lr, t, l, failPage, tEnd) ==
  IF RefreshNotDue(lr, t)
  THEN Out(a, ix, lr, TRUE, 0, 0, 0, FALSE)
  ELSE forceRefresh(a, ix, lr, l, failPage, tEnd)

\* AwsManager.SetAsgSize(asg, size)
SetAsgSize(a, ix, lr, g, size, remoteErr) ==
  LET r == asgCacheSetAsgSize(a, g, size, remoteErr) IN
  Out(r.asgs, ix, lr, r.ok, 0, r.setSize, 0, r.remoteErr)

\* the clock after a deletion, set to the current time
RewoundClock_notRewound(t) == t

\* time.Now().Add(-refreshInterval)
RewoundClock(t) == t - refreshInterval

\* DeleteInstances that also takes the terminated instances off curSize
DeleteInstances_sized(a, ix, lr, batch, failAt, tEnd) ==
  LET r == asgCacheDeleteInstances(ix, batch, failAt) IN
  IF ~r.ok
  THEN Out(a, ix, lr, FALSE, 0, 0, r.terminate, r.remoteErr)
  ELSE Out([g \in DOMAIN a |->
              [a[g] EXCEPT !.curSize =
                 @ - Cardinality({i \in batch : ix[i] = g})]],
           ix, RewoundClock(tEnd), TRUE, 0, 0, r.terminate, FALSE)

\* DeleteInstances that rewinds the clock before it looks at the error
DeleteInstances_rewindFirst(a, ix, lr, batch, failAt, tEnd) ==
  LET r == asgCacheDeleteInstances(ix, batch, failAt) IN
  Out(a, ix, RewoundClock(tEnd), r.ok, 0, 0, r.terminate, r.remoteErr)

\* AwsManager.DeleteInstances(instances)
DeleteInstances(a, ix, lr, batch, failAt, tEnd) ==
  LET r == asgCacheDeleteInstances(ix, batch, failAt) IN
  IF ~r.ok
  THEN Out(a, ix, lr, FALSE, 0, 0, r.terminate, r.remoteErr)
  ELSE Out(a, ix, RewoundClock(tEnd), TRUE, 0, 0, r.terminate, FALSE)

\* AwsManager.GetAsgNodes(ref)
GetAsgNodes(ix, g) == InstancesByAsg(ix, g)

\* AwsManager.GetAsgForInstance(instance)
GetAsgForInstance(ix, i) == FindForInstance(ix, i)

\* the lookups of the manager: by instance, by group, or of the whole mapping
ByInstance == {"GetAsgForInstance", "GetInstanceStatus", "NodeGroupForNode"}
ByGroup == {"GetAsgNodes", "getAutoscalingOptions"}
LookupOps == ByInstance \cup ByGroup \cup {"getAsgs"}

\* 1 when the lookup finds what it is asked for, 0 on a miss
LookupHit(a, ix, kind, i, g) ==
  IF kind \in ByInstance THEN (IF GetAsgForInstance(ix, i) # "none" THEN 1 ELSE 0)
  ELSE IF kind \in ByGroup THEN (IF g \in DOMAIN a THEN 1 ELSE 0)
  ELSE 1

\* a lookup that regenerates the cache when it misses
Lookup_refreshOnMiss(a, ix, lr, kind, i, g) ==
  IF LookupHit(a, ix, kind, i, g) = 1
  THEN Out(a, ix, lr, TRUE, 0, 0, 0, FALSE)
  ELSE forceRefresh(a, ix, lr, NoListing, 0, lr)

\* AwsManager.GetAsgForInstance, getAsgs, getAutoscalingOptions, GetAsgNodes,
\* GetInstanceStatus and awsCloudProvider.NodeGroupForNode: each returns what
\* the cache holds; a miss is a nil result, not an error
Lookup(a, ix, lr, kind, i, g) == Out(a, ix, lr, TRUE, 0, 0, 0, FALSE)

----------------------------------------------------------------------------
(* AwsNodeGroup, a handle on the cached group g *)

MinSize(a, g) == a[g].minSize
MaxSize(a, g) == a[g].maxSize

\* TargetSize() that returns the maximum instead of the current size
TargetSize_maxSize(a, g) == a[g].maxSize

\* AwsNodeGroup.TargetSize()
TargetSize(a, g) == a[g].curSize

\* the delta check of IncreaseSize that lets a zero or negative delta through
DeltaNotPositive_off(delta) == FALSE

\* delta <= 0
DeltaNotPositive(delta) == delta <= 0

\* AwsNodeGroup.IncreaseSize(delta)
IncreaseSize(a, ix, lr, g, delta, remoteErr) ==
  IF DeltaNotPositive(delta)
  THEN Rejected(a, ix, lr)
  ELSE LET size == a[g].curSize IN
       IF size + delta > a[g].maxSize
       THEN Rejected(a, ix, lr)
       ELSE SetAsgSize(a, ix, lr, g, size + delta, remoteErr)

\* DecreaseTargetSize without the comparison with the registered nodes
DecreaseTargetSize_noNodeCheck(a, ix, lr, g, delta, remoteErr) ==
  IF delta >= 0
  THEN Rejected(a, ix, lr)
  ELSE SetAsgSize(a, ix, lr, g, a[g].curSize + delta, remoteErr)

\* AwsNodeGroup.DecreaseTargetSize(delta)
DecreaseTargetSize(a, ix, lr, g, delta, remoteErr) ==
  IF delta >= 0
  THEN Rejected(a, ix, lr)
  ELSE LET size == a[g].curSize
           nodes == GetAsgNodes(ix, g) IN
       IF size + delta < Cardinality(nodes)
       THEN Rejected(a, ix, lr)
       ELSE SetAsgSize(a, ix, lr, g, size + delta, remoteErr)

\* Belongs that accepts every node found in the index, whatever its group
Belongs_anyGroup(ix, g, node) ==
  IF GetAsgForInstance(ix, node) = "none" THEN "error" ELSE "yes"

\* AwsNodeGroup.Belongs(node): "error" for a node of no known group
Belongs(ix, g, node) ==
  LET targetAsg == GetAsgForInstance(ix, node) IN
  IF targetAsg = "none" THEN "error"
  ELSE IF targetAsg # g THEN "no"
  ELSE "yes"

\* the minimum check of DeleteNodes with a strict comparison
MinSizeReached_strict(a, g) == a[g].curSize < MinSize(a, g)

\* int(size) <= ng.MinSize()
MinSizeReached(a, g) == a[g].curSize <= MinSize(a, g)

\* AwsNodeGroup.DeleteNodes(nodes)
DeleteNodes(a, ix, lr, g, batch, failAt, tEnd) ==
  IF MinSizeReached(a, g)
  THEN Rejected(a, ix, lr)
  ELSE IF \E node \in batch : Belongs(ix, g, node) # "yes"
  THEN Rejected(a, ix, lr)
  ELSE DeleteInstances(a, ix, lr, batch, failAt, tEnd)

----------------------------------------------------------------------------
(* Strings: a string is the sequence of its characters *)

\* s[n:]
Skip(s, n) == SubSeq(s, n + 1, Len(s))

\* strings.HasPrefix
HasPrefix(s, p) == Len(s) >= Len(p) /\ SubSeq(s, 1, Len(p)) = p

\* every character of s is in the class cs
AllIn(s, cs) == \A k \in 1..Len(s) : s[k] \in cs

\* strings.Index for a one-character separator, 0 when absent
Index(s, sep) ==
  IF \A k \in 1..Len(s) : s[k] # sep THEN 0
  ELSE CHOOSE k \in 1..Len(s) : s[k] = sep /\ \A j \in 1..(k - 1) : s[j] # sep

\* strings.Split(s, sep): always at least one piece
RECURSIVE Split(_, _)
Split(s, sep) ==
  LET k == Index(s, sep) IN
  IF k = 0 THEN <<s>>
  ELSE <<SubSeq(s, 1, k - 1)>> \o Split(Skip(s, k), sep)

\* strings.SplitN(s, sep, 2): cut at the first separator only
SplitN2(s, sep) ==
  LET k == Index(s, sep) IN
  IF k = 0 THEN <<s>> ELSE <<SubSeq(s, 1, k - 1), Skip(s, k)>>

----------------------------------------------------------------------------
(* AwsRefFromProviderId *)

\* the character class [-0-9a-z]
LowerAlnumDash ==
  {"-", "0", "1", "2", "3", "4", "5", "6", "7", "8", "9",
   "a", "b", "c", "d", "e", "f", "g", "h", "i", "j", "k", "l", "m",
   "n", "o", "p", "q", "r", "s", "t", "u", "v", "w", "x", "y", "z"}

\* the literal aws:/// of the pattern, 7 characters
awsScheme == <<"a", "w", "s", ":", "/", "/", "/">>

\* the reserved prefix of the name of an instance not yet materialized
placeholderInstanceNamePrefix ==
  <<"i", "-", "p", "l", "a", "c", "e", "h", "o", "l", "d", "e", "r">>

\* first alternative: ^aws:///[-0-9a-z]*/[-0-9a-z]*(/[-0-9a-z.]*)?$
MatchesZoneName(id) ==
  /\ HasPrefix(id, awsScheme)
  /\ LET seg == Split(Skip(id, 7), "/") IN
     /\ Len(seg) \in {2, 3}
     /\ AllIn(seg[1], LowerAlnumDash)
     /\ AllIn(seg[2], LowerAlnumDash)
     /\ (Len(seg) = 3 => AllIn(seg[3], LowerAlnumDash \cup {"."}))

\* second alternative: aws:///[-0-9a-z]*/<placeholder prefix>.*$
\* it has no ^, so it may begin anywhere in id; . is any character but \n
MatchesPlaceholder(id) ==
  \E p \in 0..Len(id) :
    /\ HasPrefix(Skip(id, p), awsScheme)
    /\ LET u == Skip(id, p + 7) IN
       \E k \in 0..Len(u) :
         /\ AllIn(SubSeq(u, 1, k), LowerAlnumDash)
         /\ HasPrefix(Skip(u, k), <<"/">> \o placeholderInstanceNamePrefix)
         /\ \A j \in (k + 2 + Len(placeholderInstanceNamePrefix))..Len(u) :
              u[j] # "\n"

\* validAwsRefIdRegex.FindStringSubmatch(id) # nil
validAwsRefIdRegex(id) == MatchesZoneName(id) \/ MatchesPlaceholder(id)

\* AwsRefFromProviderId(id): (nil, error) or (&AwsInstanceRef{id, name}, nil)
AwsRefFromProviderId(id) ==
  IF ~validAwsRefIdRegex(id)
  THEN [err |-> TRUE, ProviderID |-> <<>>, Name |-> <<>>]
  ELSE LET splitted == Split(Skip(id, 7), "/") IN
       [err |-> FALSE, ProviderID |-> id, Name |-> splitted[2]]

----------------------------------------------------------------------------
(* parseASGAutoDiscoverySpec *)

autoDiscovererTypeASG == <<"a", "s", "g">>
asgAutoDiscovererKeyTag == <<"t", "a", "g">>

\* the error of fmt.Errorf(format, args...): its format text and the strings
\* it prints into it
Errorf(format, args) ==
  [err |-> TRUE, format |-> format, args |-> args, hasTags |-> FALSE,
   Tags |-> <<>>]

\* cfg.Tags after the first n labels of p; a later label replaces an earlier
\* one with the same key; a label without = maps its key to ""
RECURSIVE TagsOf(_, _)
TagsOf(p, n) ==
  IF n = 0 THEN <<>>
  ELSE LET m == TagsOf(p, n - 1)
           lp == SplitN2(p[n], "=")
           v == IF Len(lp) > 1 THEN lp[2] ELSE <<>>
       IN [x \in DOMAIN m \cup {lp[1]} |-> IF x = lp[1] THEN v ELSE m[x]]

\* the variant that does not test for an empty value
parseASGAutoDiscoverySpec_emptyValue(spec) ==
  LET tokens == SplitN2(spec, ":")
      kv == SplitN2(tokens[2], "=")
      p == Split(kv[2], ",")
  IN
  IF Len(tokens) # 2
  THEN Errorf("invalid node group auto discovery spec specified via --node-group-auto-discovery: %s", <<spec>>)
  ELSE IF tokens[1] # autoDiscovererTypeASG
  THEN Errorf("unsupported discoverer specified: %s", <<tokens[1]>>)
  ELSE IF Len(kv) # 2
  THEN Errorf("invalid key=value pair %s", <<kv[1]>>)
  ELSE IF kv[1] # asgAutoDiscovererKeyTag
  THEN Errorf("unsupported parameter key \"%s\" is specified for discoverer \"%s\". The only supported key is \"%s\"",
              <<kv[1], tokens[1], asgAutoDiscovererKeyTag>>)
  ELSE [err |-> FALSE, format |-> "", args |-> <<>>, hasTags |-> TRUE,
        Tags |-> TagsOf(p, Len(p))]

\* parseASGAutoDiscoverySpec(spec): (cfg, error); cfg.Tags is set only on the
\* path that returns no error
parseASGAutoDiscoverySpec(spec) ==
  LET tokens == SplitN2(spec, ":")
      kv == SplitN2(tokens[2], "=")
      p == Split(kv[2], ",")
  IN
  IF Len(tokens) # 2
  THEN Errorf("invalid node group auto discovery spec specified via --node-group-auto-discovery: %s", <<spec>>)
  ELSE IF tokens[1] # autoDiscovererTypeASG
  THEN Errorf("unsupported discoverer specified: %s", <<tokens[1]>>)
  ELSE IF Len(kv) # 2
  THEN Errorf("invalid key=value pair %s", <<kv[1]>>)
  ELSE IF kv[1] # asgAutoDiscovererKeyTag
  THEN Errorf("unsupported parameter key \"%s\" is specified for discoverer \"%s\". The only supported key is \"%s\"",
              <<kv[1], tokens[1], asgAutoDiscovererKeyTag>>)
  ELSE IF kv[2] = <<>>
  THEN Errorf("tag value not supplied", <<>>)
  ELSE IF Len(p) = 0
  THEN Errorf("invalid ASG tag for auto discovery specified: ASG tag must not be empty", <<>>)
  ELSE [err |-> FALSE, format |-> "", args |-> <<>>, hasTags |-> TRUE,
        Tags |-> TagsOf(p, Len(p))]

----------------------------------------------------------------------------
(* The strings handed to the parsers *)

\* text in front of the scheme
IdJunk ==
  {<<>>,
   <<"x">>}

\* the scheme, whole, cut short, foreign or missing
IdSchemes ==
  {<<"a", "w", "s", ":", "/", "/", "/">>,
   <<"a", "w", "s", ":", "/", "/">>,
   <<"g", "c", "e", ":", "/", "/", "/">>,
   <<>>}

\* the zone segment
IdZones ==
  {<<>>,
   <<"u", "s", "-", "1", "a">>,
   <<"U", "s">>}

\* the separator between zone and name
IdSeps ==
  {<<"/">>,
   <<>>}

\* the name segment
IdNames ==
  {<<>>,
   <<"i", "-", "0", "a", "b">>,
   <<"i", "-", "p", "l", "a", "c", "e", "h", "o", "l", "d", "e", "r", "-", "1">>,
   <<"i", "_", "0">>}

\* what follows the name
IdExtras ==
  {<<>>,
   <<"/">>,
   <<"/", "a", ".", "b">>,
   <<"/", "a", "/", "b">>,
   <<"\n">>}

ProviderIds ==
  {j \o sc \o z \o sp \o n \o e :
     j \in IdJunk, sc \in IdSchemes, z \in IdZones, sp \in IdSeps,
     n \in IdNames, e \in IdExtras}

\* the discoverer
SpecDiscoverers ==
  {<<"a", "s", "g">>,
   <<"m", "i", "g">>,
   <<>>}

\* the separator after the discoverer
SpecColons ==
  {<<":">>,
   <<>>}

\* the parameter key
SpecKeys ==
  {<<"t", "a", "g">>,
   <<"l", "a", "b", "e", "l">>,
   <<>>}

\* the separator after the key
SpecEquals ==
  {<<"=">>,
   <<>>}

\* the value list
SpecValues ==
  {<<>>,
   <<"k">>,
   <<"k", "=", "v">>,
   <<"k", "=", "v", ",", "j">>,
   <<",">>,
   <<"k", "=", "v", ",", "k", "=", "w">>,
   <<"a", ":", "b", "=", "c">>}

DiscoverySpecs ==
  {d \o c \o k \o e \o v :
     d \in SpecDiscoverers, c \in SpecColons, k \in SpecKeys,
     e \in SpecEquals, v \in SpecValues}

----------------------------------------------------------------------------
(* The state machine: one action per call of the autoscaler's control loop *)

Sizes == 0..MaxCap
Deltas == (0 - MaxCap)..MaxCap
Batches == SUBSET Instances
FailPages == 0..NumPages
\* which terminate call of a batch fails (0: none)
FailAts(batch) == 0..Cardinality(batch)

\* what the listing has answered when page failPage fails: the groups of the
\* pages before it (failPage = 0: every page is answered)
ReadBefore(failPage) ==
  IF failPage = 0
  THEN Listings
  ELSE {l \in Listings : \A g \in DOMAIN l.desired : PageOf(g) < failPage}

\* what the listing answers, when Refresh() at time t asks for it at all
Answers(lr, t, failPage) ==
  IF RefreshNotDue(lr, t) THEN {NoListing} ELSE ReadBefore(failPage)

NoCall ==
  [op |-> "none", ok |-> TRUE, regen |-> 0, setSize |-> 0, terminate |-> 0,
   remoteErr |-> FALSE, sched |-> FALSE, grp |-> "none", arg |-> 0,
   batch |-> {}]

\* the record of a call op with outcome r
Called(op, r, g, arg, batch) ==
  [op |-> op, ok |-> r.ok, regen |-> r.regen, setSize |-> r.setSize,
   terminate |-> r.terminate, remoteErr |-> r.remoteErr,
   sched |-> refreshScheduled, grp |-> g, arg |-> arg, batch |-> batch]

\* the control loop is a single caller: it issues a call when it has taken the
\* result of the previous one
Idle == last.op \in {"none", "create"}

\* no parser has been called
NotParsed == [op |-> "none"]

\* the cache is used from one caller context: no thread is inside it
Threads == {"writer", "reader"}
NoSnapshot == [asgs |-> <<>>, index |-> <<>>]
NoThreads ==
  /\ mutex = "free"
  /\ pc = [t \in Threads |-> "idle"]
  /\ built = NoSnapshot
  /\ seen = NoSnapshot
  /\ committed = NoSnapshot
  /\ offered = {}

\* the effect of a call with outcome r
Returns(r) ==
  /\ asgs' = r.asgs
  /\ instanceToAsg' = r.index
  /\ lastRefresh' = r.lastRefresh
  /\ now' = now
  /\ UNCHANGED parserVars
  /\ UNCHANGED threadVars

EmptyMap == [x \in {} |-> x]

\* createAWSManagerInternal: a manager exists only if forceRefresh() succeeded
Init ==
  \E l \in Listings :
    LET r == forceRefresh(EmptyMap, EmptyMap, 0, l, 0, 0) IN
    /\ now = 0
    /\ lastRefresh = r.lastRefresh
    /\ asgs = r.asgs
    /\ instanceToAsg = r.index
    /\ refreshScheduled = FALSE
    /\ regenAt = 0
    /\ last = [NoCall EXCEPT !.op = "create", !.regen = r.regen]
    /\ text = <<>>
    /\ parsed = NotParsed
    /\ NoThreads

\* time passes between two calls
Tick ==
  /\ now < MaxTime
  /\ now' = now + 1
  /\ last' = NoCall
  /\ UNCHANGED <<lastRefresh, asgs, instanceToAsg, refreshScheduled, regenAt>>
  /\ UNCHANGED parserVars
  /\ UNCHANGED threadVars

\* awsCloudProvider.Refresh(): return aws.awsManager.Refresh()
CallRefresh ==
  /\ Idle
  /\ \E failPage \in FailPages : \E l \in Answers(lastRefresh, now, failPage) :
       LET r == Refresh(asgs, instanceToAsg, lastRefresh, now, l, failPage, now) IN
       /\ Returns(r)
       /\ last' = Called("Refresh", r, "none", 0, {})
       /\ refreshScheduled' = FALSE
       /\ regenAt' = IF r.regen = 1 /\ r.ok THEN now ELSE regenAt

\* AwsManager.SetAsgSize on a cached group
CallSetAsgSize ==
  /\ Idle
  /\ \E g \in DOMAIN asgs, size \in Sizes, remoteErr \in BOOLEAN :
       LET r == SetAsgSize(asgs, instanceToAsg, lastRefresh, g, size, remoteErr) IN
       /\ Returns(r)
       /\ last' = Called("SetAsgSize", r, g, size, {})
       /\ UNCHANGED <<refreshScheduled, regenAt>>

\* AwsNodeGroup.IncreaseSize on a group returned by NodeGroups()
CallIncreaseSize ==
  /\ Idle
  /\ \E g \in DOMAIN asgs, delta \in Deltas, remoteErr \in BOOLEAN :
       LET r == IncreaseSize(asgs, instanceToAsg, lastRefresh, g, delta, remoteErr) IN
       /\ Returns(r)
       /\ last' = Called("IncreaseSize", r, g, delta, {})
       /\ UNCHANGED <<refreshScheduled, regenAt>>

\* AwsNodeGroup.DecreaseTargetSize on a group returned by NodeGroups()
CallDecreaseTargetSize ==
  /\ Idle
  /\ \E g \in DOMAIN asgs, delta \in Deltas, remoteErr \in BOOLEAN :
       LET r == DecreaseTargetSize(asgs, instanceToAsg, lastRefresh, g, delta,
                                   remoteErr) IN
       /\ Returns(r)
       /\ last' = Called("DecreaseTargetSize", r, g, delta, {})
       /\ UNCHANGED <<refreshScheduled, regenAt>>

\* AwsNodeGroup.DeleteNodes on a group returned by NodeGroups()
CallDeleteNodes ==
  /\ Idle
  /\ \E g \in DOMAIN asgs, batch \in Batches : \E failAt \in FailAts(batch) :
       LET r == DeleteNodes(asgs, instanceToAsg, lastRefresh, g, batch, failAt,
                            now) IN
       /\ Returns(r)
       /\ last' = Called("DeleteNodes", r, g, 0, batch)
       /\ refreshScheduled' = (refreshScheduled \/ r.ok)
       /\ regenAt' = IF r.ok THEN 0 - 1 ELSE regenAt

\* AwsManager.DeleteInstances called directly
CallDeleteInstances ==
  /\ Idle
  /\ \E batch \in Batches : \E failAt \in FailAts(batch) :
       LET r == DeleteInstances(asgs, instanceToAsg, lastRefresh, batch, failAt,
                                now) IN
       /\ Returns(r)
       /\ last' = Called("DeleteInstances", r, "none", 0, batch)
       /\ refreshScheduled' = (refreshScheduled \/ r.ok)
       /\ regenAt' = IF r.ok THEN 0 - 1 ELSE regenAt

\* a lookup of the manager or of the provider
CallLookup ==
  /\ Idle
  /\ \E kind \in LookupOps, i \in Instances, g \in Groups :
       LET r == Lookup(asgs, instanceToAsg, lastRefresh, kind, i, g) IN
       /\ Returns(r)
       /\ last' = Called(kind, r,
                         IF kind \in ByGroup THEN g ELSE "none",
                         LookupHit(asgs, instanceToAsg, kind, i, g),
                         IF kind \in ByInstance THEN {i} ELSE {})
       /\ UNCHANGED <<refreshScheduled, regenAt>>

\* the control loop takes the result of a call and goes on
Resume ==
  /\ ~Idle
  /\ last' = NoCall
  /\ UNCHANGED <<now, lastRefresh, asgs, instanceToAsg, refreshScheduled,
                 regenAt>>
  /\ UNCHANGED parserVars
  /\ UNCHANGED threadVars

Next ==
  \/ Tick
  \/ Resume
  \/ CallRefresh
  \/ CallSetAsgSize
  \/ CallIncreaseSize
  \/ CallDecreaseTargetSize
  \/ CallDeleteNodes
  \/ CallDeleteInstances
  \/ CallLookup

Spec == Init /\ [][Next]_vars

\* the manager's operations that read or write the refresh clock, and the
\* passing of time; the other calls leave now and lastRefresh as they are, and
\* DeleteNodes reaches the clock only through DeleteInstances
ClockNext ==
  \/ Tick
  \/ Resume
  \/ CallRefresh
  \/ CallDeleteInstances

\* the control loop keeps running: it takes the result of every call
LiveSpec == Init /\ [][ClockNext]_vars /\ WF_vars(Resume)

TypeOK ==
  /\ now \in 0..MaxTime
  /\ lastRefresh \in (0 - refreshInterval)..MaxTime
  /\ DOMAIN asgs \subseteq Groups
  /\ \A g \in DOMAIN asgs : asgs[g].curSize \in Sizes
  /\ DOMAIN instanceToAsg \subseteq Instances
  /\ \A i \in DOMAIN instanceToAsg : instanceToAsg[i] \in DOMAIN asgs
  /\ refreshScheduled \in BOOLEAN
  /\ regenAt \in (0 - 1)..MaxTime
  /\ regenAt >= 0 => regenAt = lastRefresh

----------------------------------------------------------------------------
(* The parsers, called on their own: they read and write no manager state *)

managerVars ==
  <<now, lastRefresh, asgs, instanceToAsg, refreshScheduled, regenAt, last>>

InitParse ==
  /\ now = 0
  /\ lastRefresh = 0
  /\ asgs = EmptyMap
  /\ instanceToAsg = EmptyMap
  /\ refreshScheduled = FALSE
  /\ regenAt = 0
  /\ last = NoCall
  /\ text = <<>>
  /\ parsed = NotParsed
  /\ NoThreads

CallAwsRefFromProviderId ==
  \E id \in ProviderIds :
    /\ parsed = NotParsed
    /\ text' = id
    /\ parsed' = [op |-> "AwsRefFromProviderId", ref |-> AwsRefFromProviderId(id)]
    /\ UNCHANGED managerVars
    /\ UNCHANGED threadVars

CallParseASGAutoDiscoverySpec ==
  \E spec \in DiscoverySpecs :
    /\ parsed = NotParsed
    /\ text' = spec
    /\ parsed' = [op |-> "parseASGAutoDiscoverySpec",
                  cfg |-> parseASGAutoDiscoverySpec(spec)]
    /\ UNCHANGED managerVars
    /\ UNCHANGED threadVars

\* the caller takes the result; the parsers keep nothing between calls
ParseReturn ==
  /\ parsed # NotParsed
  /\ text' = <<>>
  /\ parsed' = NotParsed
  /\ UNCHANGED managerVars
  /\ UNCHANGED threadVars

ParseNext ==
  \/ CallAwsRefFromProviderId
  \/ CallParseASGAutoDiscoverySpec
  \/ ParseReturn

SpecParse == InitParse /\ [][ParseNext]_vars

----------------------------------------------------------------------------
(* asgCache used by two threads, modelled from the design document          *)
(* (sections 5 and 9): one exclusive lock around every access; a            *)
(* regeneration builds the new mapping and index aside and substitutes both *)
(* under the lock.  The manager's clock plays no part here.                 *)

restVars ==
  <<now, lastRefresh, refreshScheduled, regenAt, last, text, parsed>>

\* sync.Mutex: Lock() goes through only when nobody holds the lock
MutexFree_ignored(m) == TRUE
MutexFree(m) == m = "free"

\* a thread is between its Lock() and its Unlock()
InCache(t) == pc[t] \notin {"idle", "built"}

Snapshot(a, ix) == [asgs |-> a, index |-> ix]

\* a manager exists (createAWSManagerInternal has regenerated once); both
\* threads are outside the cache
InitThreads ==
  \E l \in Listings :
    LET r == regenerate(EmptyMap, EmptyMap, l, 0) IN
    /\ now = 0
    /\ lastRefresh = 0
    /\ asgs = r.asgs
    /\ instanceToAsg = r.index
    /\ refreshScheduled = FALSE
    /\ regenAt = 0
    /\ last = NoCall
    /\ text = <<>>
    /\ parsed = NotParsed
    /\ mutex = "free"
    /\ pc = [t \in Threads |-> "idle"]
    /\ built = NoSnapshot
    /\ seen = NoSnapshot
    /\ committed = Snapshot(r.asgs, r.index)
    /\ offered = {}

\* regenerate, first part: list the remote groups and build the new mapping
\* and index aside; a failing listing ends the regeneration here
BuildAside ==
  /\ pc["writer"] = "idle"
  /\ \E failPage \in FailPages : \E l \in ReadBefore(failPage) :
       LET r == regenerate(asgs, instanceToAsg, l, failPage) IN
       /\ ~r.err
       /\ built' = Snapshot(r.asgs, r.index)
       /\ pc' = [pc EXCEPT !["writer"] = "built"]
  /\ UNCHANGED <<asgs, instanceToAsg, mutex, seen, committed, offered>>
  /\ UNCHANGED restVars

\* regenerate, second part: Lock()
LockToSwap ==
  /\ pc["writer"] = "built"
  /\ MutexFree(mutex)
  /\ mutex' = "writer"
  /\ pc' = [pc EXCEPT !["writer"] = "swapAsgs"]
  /\ UNCHANGED <<asgs, instanceToAsg, built, seen, committed, offered>>
  /\ UNCHANGED restVars

\* substitute the group mapping
SwapAsgs ==
  /\ pc["writer"] = "swapAsgs"
  /\ asgs' = built.asgs
  /\ pc' = [pc EXCEPT !["writer"] = "swapIndex"]
  /\ UNCHANGED <<instanceToAsg, mutex, built, seen, committed, offered>>
  /\ UNCHANGED restVars

\* a write is complete: what it leaves is the new snapshot, which a reader
\* that is reading meanwhile may return
Commits(a, ix) ==
  /\ committed' = Snapshot(a, ix)
  /\ offered' = IF pc["reader"] = "idle" THEN {}
                ELSE offered \cup {Snapshot(a, ix)}

\* substitute the instance index
SwapIndex ==
  /\ pc["writer"] = "swapIndex"
  /\ instanceToAsg' = built.index
  /\ pc' = [pc EXCEPT !["writer"] = "unlock"]
  /\ Commits(asgs, instanceToAsg')
  /\ UNCHANGED <<asgs, mutex, built, seen>>
  /\ UNCHANGED restVars

\* a mutation: SetAsgSize takes the lock ...
LockToSetSize ==
  /\ pc["writer"] = "idle"
  /\ MutexFree(mutex)
  /\ mutex' = "writer"
  /\ pc' = [pc EXCEPT !["writer"] = "setSize"]
  /\ UNCHANGED <<asgs, instanceToAsg, built, seen, committed, offered>>
  /\ UNCHANGED restVars

\* ... and updates the size of the cached group in place
ApplySetSize ==
  /\ pc["writer"] = "setSize"
  /\ \E g \in DOMAIN asgs, size \in Sizes, remoteErr \in BOOLEAN :
       asgs' = asgCacheSetAsgSize(asgs, g, size, remoteErr).asgs
  /\ pc' = [pc EXCEPT !["writer"] = "unlock"]
  /\ Commits(asgs', instanceToAsg)
  /\ UNCHANGED <<instanceToAsg, mutex, built, seen>>
  /\ UNCHANGED restVars

\* Unlock() of the writer
WriterUnlock ==
  /\ pc["writer"] = "unlock"
  /\ mutex' = "free"
  /\ pc' = [pc EXCEPT !["writer"] = "idle"]
  /\ built' = NoSnapshot
  /\ UNCHANGED <<asgs, instanceToAsg, seen, committed, offered>>
  /\ UNCHANGED restVars

\* a reader (group list, FindForInstance, InstancesByAsg): Lock()
ReaderLock ==
  /\ pc["reader"] = "idle"
  /\ MutexFree(mutex)
  /\ mutex' = "reader"
  /\ pc' = [pc EXCEPT !["reader"] = "readIndex"]
  /\ offered' = {committed}
  /\ UNCHANGED <<asgs, instanceToAsg, built, seen, committed>>
  /\ UNCHANGED restVars

\* the reader reads the instance index ...
ReadIndex ==
  /\ pc["reader"] = "readIndex"
  /\ seen' = [seen EXCEPT !.index = instanceToAsg]
  /\ pc' = [pc EXCEPT !["reader"] = "readAsgs"]
  /\ UNCHANGED <<asgs, instanceToAsg, mutex, built, committed, offered>>
  /\ UNCHANGED restVars

\* ... and the group mapping
ReadAsgs ==
  /\ pc["reader"] = "readAsgs"
  /\ seen' = [seen EXCEPT !.asgs = asgs]
  /\ pc' = [pc EXCEPT !["reader"] = "unlock"]
  /\ UNCHANGED <<asgs, instanceToAsg, mutex, built, committed, offered>>
  /\ UNCHANGED restVars

\* Unlock() of the reader: it returns what it has read
ReaderUnlock ==
  /\ pc["reader"] = "unlock"
  /\ mutex' = "free"
  /\ pc' = [pc EXCEPT !["reader"] = "idle"]
  /\ seen' = NoSnapshot
  /\ offered' = {}
  /\ UNCHANGED <<asgs, instanceToAsg, built, committed>>
  /\ UNCHANGED restVars

ThreadsNext ==
  \/ BuildAside
  \/ LockToSwap
  \/ SwapAsgs
  \/ SwapIndex
  \/ LockToSetSize
  \/ ApplySetSize
  \/ WriterUnlock
  \/ ReaderLock
  \/ ReadIndex
  \/ ReadAsgs
  \/ ReaderUnlock

SpecThreads == InitThreads /\ [][ThreadsNext]_vars

----------------------------------------------------------------------------
(* Properties *)

CacheKept == asgs' = asgs /\ instanceToAsg' = instanceToAsg
ClockKept == lastRefresh' = lastRefresh

\* the step is a call of op issued by the control loop
IsCall(op) == Idle /\ last'.op = op

\* C1: Refresh() called at time now is a no-op (no regenerate call, cache and
\* refresh clock unchanged, success returned) whenever
\* now < lastRefresh + refreshInterval; in every other case it goes through
\* forceRefresh(), which calls regenerate() exactly once.
C1_RefreshGate ==
  [][IsCall("Refresh") =>
       IF now < lastRefresh + refreshInterval
       THEN last'.regen = 0 /\ last'.ok /\ CacheKept /\ ClockKept
       ELSE last'.regen = 1]_vars

\* a Refresh() that was skipped by the interval gate
C1_Witness ==
  /\ last.op = "Refresh" /\ last.regen = 0 /\ last.ok
  /\ now < lastRefresh + refreshInterval

\* C2: forceRefresh() sets lastRefresh to the current time iff regenerate()
\* returned no error; when regenerate() fails lastRefresh keeps its value and
\* the error is returned; no other step sets the clock to the current time.
C2_ClockOnlyOnSuccess ==
  [][/\ (IsCall("Refresh") /\ last'.regen = 1) =>
          /\ (lastRefresh' = now') <=> ~last'.remoteErr
          /\ last'.remoteErr => (ClockKept /\ ~last'.ok)
     /\ (lastRefresh' # lastRefresh /\ lastRefresh' = now') =>
          (last'.op = "Refresh" /\ last'.regen = 1 /\ last'.ok)]_vars

\* a due Refresh() whose regeneration failed
C2_Witness ==
  /\ last.op = "Refresh" /\ last.regen = 1 /\ last.remoteErr /\ ~last.ok
  /\ lastRefresh + refreshInterval <= now

\* C3: after a successful DeleteInstances, the next Refresh() call, at any
\* later or equal time, regenerates instead of being skipped by the gate.
C3_RefreshAfterDelete ==
  (last.op = "Refresh" /\ last.sched) => last.regen = 1

\* a Refresh() that follows a successful deletion and has regenerated
C3_Witness ==
  last.op = "Refresh" /\ last.sched /\ last.regen = 1 /\ last.ok

\* C4: a failed regenerate() leaves the group mapping and the instance index
\* exactly as they were.
C4_FailedRegenerateKeepsCache ==
  [][(IsCall("Refresh") /\ last'.regen = 1 /\ last'.remoteErr) => CacheKept]_vars

\* a failed regeneration over a cache that holds groups and index entries
C4_Witness ==
  /\ last.op = "Refresh" /\ last.regen = 1 /\ last.remoteErr
  /\ DOMAIN asgs # {} /\ DOMAIN instanceToAsg # {}

\* C5 as stated: a DeleteNodes whose batch would bring the size of the group
\* to or below its minimum is rejected with no remote call.
C5_RejectsDropToMin ==
  [][(/\ IsCall("DeleteNodes")
      /\ last'.batch # {}
      /\ asgs[last'.grp].curSize - Cardinality(last'.batch)
           <= asgs[last'.grp].minSize)
       => (~last'.ok /\ last'.terminate = 0)]_vars

\* C5 amended: a DeleteNodes issued while the cached size of the group is at or
\* below its minimum is rejected with no remote call and no change, whatever
\* the batch.
C5_RejectsAtMin ==
  [][(/\ IsCall("DeleteNodes")
      /\ asgs[last'.grp].curSize <= asgs[last'.grp].minSize)
       => (~last'.ok /\ last'.terminate = 0 /\ CacheKept /\ ClockKept)]_vars

\* a batch of members of the group, rejected because the minimum is reached
C5_Witness ==
  /\ last.op = "DeleteNodes" /\ ~last.ok /\ last.terminate = 0
  /\ last.batch # {}
  /\ \A i \in last.batch : FindForInstance(instanceToAsg, i) = last.grp
  /\ asgs[last.grp].curSize <= asgs[last.grp].minSize

\* C6: a DeleteNodes batch with an instance of another group than the one it is
\* issued on is rejected as a whole: no terminate call, cache and clock kept.
C6_MixedBatchRejected ==
  [][(/\ IsCall("DeleteNodes")
      /\ \E i \in last'.batch :
           i \in DOMAIN instanceToAsg /\ instanceToAsg[i] # last'.grp)
       => (~last'.ok /\ last'.terminate = 0 /\ CacheKept /\ ClockKept)]_vars

\* a rejected batch over two groups, on a group above its minimum
C6_Witness ==
  /\ last.op = "DeleteNodes" /\ ~last.ok /\ last.terminate = 0
  /\ asgs[last.grp].curSize > asgs[last.grp].minSize
  /\ \E i, j \in last.batch :
       /\ i \in DOMAIN instanceToAsg /\ j \in DOMAIN instanceToAsg
       /\ instanceToAsg[i] = last.grp /\ instanceToAsg[j] # last.grp

\* C7: after a successful SetAsgSize(asg, N) the target size of the group is N,
\* with no regeneration in between.
C7_SetSizeVisible ==
  (last.op = "SetAsgSize" /\ last.ok) =>
     (last.regen = 0 /\ TargetSize(asgs, last.grp) = last.arg)

\* a successful SetAsgSize within the bounds of the group
C7_Witness ==
  /\ last.op = "SetAsgSize" /\ last.ok /\ last.setSize = 1
  /\ MinSize(asgs, last.grp) <= last.arg /\ last.arg <= MaxSize(asgs, last.grp)
  /\ last.arg > MinSize(asgs, last.grp)

\* C8: after every successful IncreaseSize, DecreaseTargetSize or SetAsgSize
\* the cached size of the group is within [minSize, maxSize].
C8_SizeWithinBounds ==
  (last.op \in {"SetAsgSize", "IncreaseSize", "DecreaseTargetSize"} /\ last.ok)
    => /\ asgs[last.grp].minSize <= asgs[last.grp].curSize
       /\ asgs[last.grp].curSize <= asgs[last.grp].maxSize

\* a successful decrease of the target size
C8_Witness ==
  /\ last.op = "DecreaseTargetSize" /\ last.ok /\ last.setSize = 1
  /\ asgs[last.grp].curSize = asgs[last.grp].minSize

\* C9 as stated: Refresh() never surfaces the failure of the remote listing.
C9_RefreshSwallowsError ==
  (last.op = "Refresh" /\ last.remoteErr) => last.ok

\* C9 amended: a failure of the remote listing during a due Refresh() is
\* returned to the caller, with the cache left as it was; a failed remote call
\* of a mutation is returned as well.
C9_RefreshReturnsError ==
  [][/\ (IsCall("Refresh") /\ last'.remoteErr) => (~last'.ok /\ CacheKept)
     /\ (last'.op \in {"SetAsgSize", "IncreaseSize", "DecreaseTargetSize",
                       "DeleteNodes", "DeleteInstances"} /\ last'.remoteErr)
          => ~last'.ok]_vars

\* a Refresh() that returned the error of the listing, the cache still serving
C9_Witness ==
  /\ last.op = "Refresh" /\ last.remoteErr /\ ~last.ok
  /\ DOMAIN asgs # {}

\* C10: an IncreaseSize with delta <= 0 or with curSize + delta > maxSize is
\* rejected with no set-desired-size call; cache and clock are unchanged.
C10_IncreaseRejected ==
  [][(/\ IsCall("IncreaseSize")
      /\ \/ last'.arg <= 0
         \/ asgs[last'.grp].curSize + last'.arg > asgs[last'.grp].maxSize)
       => (~last'.ok /\ last'.setSize = 0 /\ CacheKept /\ ClockKept)]_vars

\* an increase beyond the maximum, rejected
C10_Witness ==
  /\ last.op = "IncreaseSize" /\ ~last.ok /\ last.setSize = 0
  /\ last.arg > 0
  /\ asgs[last.grp].curSize + last.arg > asgs[last.grp].maxSize


\* C11: DecreaseTargetSize never deletes registered members: with delta >= 0,
\* or with curSize + delta below the number of instances indexed for the
\* group, it is rejected with no set-size call and no change; whenever it
\* issues the set-size call the new size is at least that number.
C11_DecreaseKeepsMembers ==
  [][IsCall("DecreaseTargetSize") =>
       LET g == last'.grp
           n == Cardinality(InstancesByAsg(instanceToAsg, g)) IN
       /\ (last'.arg >= 0 \/ asgs[g].curSize + last'.arg < n)
            => (~last'.ok /\ last'.setSize = 0 /\ CacheKept /\ ClockKept)
       /\ last'.setSize = 1 => asgs[g].curSize + last'.arg >= n]_vars

\* a decrease within the bounds of the group, rejected for its members
C11_Witness ==
  /\ last.op = "DecreaseTargetSize" /\ ~last.ok /\ last.setSize = 0
  /\ last.arg < 0
  /\ asgs[last.grp].curSize + last.arg >= asgs[last.grp].minSize
  /\ asgs[last.grp].curSize + last.arg
       < Cardinality(InstancesByAsg(instanceToAsg, last.grp))


\* C13: lookups are pure reads: after any lookup, hit or miss, the group
\* mapping, the instance index and the refresh clock are unchanged, and no
\* remote call and no regeneration was triggered.
C13_LookupsArePure ==
  [][(Idle /\ last'.op \in LookupOps) =>
       /\ CacheKept /\ ClockKept
       /\ last'.regen = 0 /\ last'.setSize = 0 /\ last'.terminate = 0
       /\ last'.ok]_vars

\* a lookup by instance that missed, on a cache that holds groups
C13_Witness ==
  /\ last.op = "NodeGroupForNode" /\ last.arg = 0 /\ last.regen = 0
  /\ DOMAIN asgs # {}


DeleteOps == {"DeleteInstances", "DeleteNodes"}

\* C16: a successful DeleteInstances changes only the refresh clock: it does
\* not regenerate, and the group mapping, the cached curSize of the owning
\* group included, is after the call what it was before.
C16_DeleteOnlyRewinds ==
  [][(Idle /\ last'.op \in DeleteOps /\ last'.ok) =>
       /\ CacheKept
       /\ last'.regen = 0 /\ last'.setSize = 0
       /\ lastRefresh' = now' - refreshInterval]_vars

\* a deletion that terminated members of a group on the remote side
C16_Witness ==
  /\ last.op = "DeleteNodes" /\ last.ok /\ last.terminate >= 1
  /\ last.terminate = Cardinality(last.batch)
  /\ lastRefresh = now - refreshInterval

\* C18: a failed DeleteInstances leaves the refresh clock unchanged, so a
\* Refresh() that was not due before the failed deletion is not due after it.
C18_FailedDeleteKeepsClock ==
  [][(Idle /\ last'.op \in DeleteOps /\ ~last'.ok) =>
       /\ ClockKept
       /\ RefreshNotDue(lastRefresh, now) => RefreshNotDue(lastRefresh', now')]_vars

\* a deletion whose terminate call failed while no refresh was due
C18_Witness ==
  /\ last.op = "DeleteInstances" /\ ~last.ok /\ last.remoteErr
  /\ last.terminate >= 1
  /\ ~last.sched
  /\ now < lastRefresh + refreshInterval


\* C17: after every successful regeneration every entry of the instance index
\* refers to a group of the group mapping: the entries of the groups that are
\* no longer observed are dropped with them, and a lookup by instance never
\* returns a group that is not in the group list.
C17_IndexWithinGroups ==
  /\ (last.op \in {"Refresh", "create"} /\ last.regen = 1 /\ last.ok) =>
        \A i \in DOMAIN instanceToAsg : instanceToAsg[i] \in DOMAIN asgs
  /\ \A i \in Instances :
        GetAsgForInstance(instanceToAsg, i) \in DOMAIN asgs \cup {"none"}

\* a regeneration by Refresh() that observes one group only, with a member
C17_Witness ==
  /\ last.op = "Refresh" /\ last.regen = 1 /\ last.ok
  /\ Cardinality(DOMAIN asgs) = 1
  /\ DOMAIN instanceToAsg # {}
  /\ \E i \in Instances : i \notin DOMAIN instanceToAsg


\* C19: refresh rate limit: as long as no successful DeleteInstances has
\* followed the last successful regeneration, a Refresh() call reaches the
\* remote listing only when at least refreshInterval has passed since that
\* regeneration.
C19_RefreshRateLimit ==
  [][(IsCall("Refresh") /\ last'.regen = 1 /\ regenAt >= 0) =>
       now >= regenAt + refreshInterval]_vars

\* a Refresh() held back within the interval that follows a regeneration made
\* by an earlier Refresh()
C19_Witness ==
  /\ last.op = "Refresh" /\ last.regen = 0
  /\ regenAt > 0
  /\ now < regenAt + refreshInterval


Due == ~RefreshNotDue(lastRefresh, now)
Regenerated == last.op = "Refresh" /\ last.regen = 1 /\ last.ok

\* Refresh() keeps being called and the remote listing does not fail forever:
\* if the control loop is again and again about to call with a refresh due,
\* then again and again a Refresh() regenerates with success
ListingRecovers == []<>(Idle /\ Due) => []<>Regenerated

HasScheme(id) == HasPrefix(id, awsScheme)

\* the segments that follow the scheme
Segments(id) == Split(Skip(id, 7), "/")

\* the malformed identifiers: no scheme, no zone segment, or not two segments
MalformedId(id) ==
  \/ ~HasScheme(id)
  \/ HasScheme(id) /\ Segments(id)[1] = <<>>
  \/ HasScheme(id) /\ Len(Segments(id)) # 2

\* C14: for every malformed instance identifier (missing scheme, missing zone
\* segment, wrong segment count) AwsRefFromProviderId fails with an error and
\* returns no reference, in particular none with an empty or a wrong name.
C14_MalformedIdRejected ==
  (parsed.op = "AwsRefFromProviderId" /\ MalformedId(text)) =>
     (parsed.ref.err /\ parsed.ref.ProviderID = <<>> /\ parsed.ref.Name = <<>>)


\* the spec lacks the colon separator
colonAt(spec) == Index(spec, ":")
LacksColon(spec) == colonAt(spec) = 0

\* the parts of a spec that has a colon
Discoverer(spec) == SubSeq(spec, 1, colonAt(spec) - 1)
Param(spec) == Skip(spec, colonAt(spec))
equalsAt(spec) == Index(Param(spec), "=")
ParamKey(spec) == SubSeq(Param(spec), 1, equalsAt(spec) - 1)
ParamValue(spec) == Skip(Param(spec), equalsAt(spec))

\* the spec names a discoverer other than the tag-based one
OtherDiscoverer(spec) ==
  ~LacksColon(spec) /\ Discoverer(spec) # autoDiscovererTypeASG

\* the spec lacks the = of the key/value pair
LacksEquals(spec) == ~LacksColon(spec) /\ equalsAt(spec) = 0

\* the spec uses a parameter key other than "tag"
OtherKey(spec) ==
  ~LacksColon(spec) /\ ~LacksEquals(spec) /\ ParamKey(spec) # asgAutoDiscovererKeyTag

\* the spec has an empty tag value list
EmptyValueList(spec) ==
  ~LacksColon(spec) /\ ~LacksEquals(spec) /\ ParamValue(spec) = <<>>

MalformedSpec(spec) ==
  \/ LacksColon(spec)
  \/ OtherDiscoverer(spec)
  \/ LacksEquals(spec)
  \/ OtherKey(spec)
  \/ EmptyValueList(spec)

ParsedSpec == parsed.op = "parseASGAutoDiscoverySpec"

\* the error message carries the spec it was given
MessageCarriesSpec == \E k \in 1..Len(parsed.cfg.args) : parsed.cfg.args[k] = text

\* C15 as stated: for every spec with an empty tag value list, without the
\* colon, without the = of the key/value pair, with another discoverer or with
\* a key other than "tag", parseASGAutoDiscoverySpec returns an error whose
\* message identifies the offending spec, and no tag mapping.
C15_ErrorIdentifiesSpec ==
  (ParsedSpec /\ MalformedSpec(text)) =>
     (parsed.cfg.err /\ ~parsed.cfg.hasTags /\ MessageCarriesSpec)

\* C15 as amended: every such spec gets an error and no tag mapping; the
\* message carries the whole spec only when the colon is missing; otherwise it
\* carries the discoverer, the text after the colon, or the key, discoverer and
\* supported key, by the first test that fails; for an empty tag value list it
\* is the fixed text "tag value not supplied" and carries nothing of the spec.
C15_MalformedSpecRejected ==
  (ParsedSpec /\ MalformedSpec(text)) =>
     /\ parsed.cfg.err
     /\ ~parsed.cfg.hasTags
     /\ parsed.cfg.args =
          IF LacksColon(text) THEN <<text>>
          ELSE IF OtherDiscoverer(text) THEN <<Discoverer(text)>>
          ELSE IF LacksEquals(text) THEN <<Param(text)>>
          ELSE IF OtherKey(text)
               THEN <<ParamKey(text), Discoverer(text), asgAutoDiscovererKeyTag>>
          ELSE <<>>
     /\ (parsed.cfg.args = <<>>) => (parsed.cfg.format = "tag value not supplied")

\* an empty tag value list, and nothing else wrong, was rejected
C15_Witness ==
  /\ ParsedSpec
  /\ EmptyValueList(text)
  /\ ~OtherDiscoverer(text) /\ ~OtherKey(text)
  /\ parsed.cfg.err
  /\ parsed.cfg.args = <<>>


\* C12: regeneration, mutations and reads are mutually exclusive, and a reader
\* that runs concurrently with a regeneration or a mutation returns either the
\* snapshot {group mapping, instance index} that was there when it began or one
\* that a write finished since, never a mix of two.
C12_ReaderSeesSnapshot ==
  /\ ~(InCache("writer") /\ InCache("reader"))
  /\ InCache("reader") => Snapshot(asgs, instanceToAsg) = committed
  /\ pc["reader"] = "unlock" => seen \in offered

\* the reader has read both parts while a regeneration that will change both
\* has its new snapshot built and waits for the lock
C12_Witness ==
  /\ pc["reader"] = "unlock"
  /\ pc["writer"] = "built"
  /\ seen = committed
  /\ built.asgs # seen.asgs
  /\ built.index # seen.index

====
